---- MODULE Spec2Model ----
(***************************************************************************)
(* A model of binder.cpp, the koturno source bundler: main() truncates two *)
(* output files, reopens them in append mode and copies the files of two   *)
(* fixed manifests into them line by line, one blank line after each file, *)
(* returning 1 at the first input file that does not open.                 *)
(*                                                                         *)
(* Files are sequences of bytes.  The input file system is an environment  *)
(* the program learns about one open at a time: a file's state is fixed    *)
(* the first time the program opens it and never changes afterwards.       *)
(***************************************************************************)
EXTENDS Integers, Sequences, FiniteSets, TLC

\* ---- bounds of the model ------------------------------------------------
\* number of entries of min_files (25 in the source)
NMin == 3
\* number of entries of opt_files (9 in the source)
NOpt == 2
\* total number of bytes held by the input files the run opens
MaxInputBytes == 4
\* longest content an output file may hold before the first run
MaxOld == 1
\* number of successive invocations of the program (SpecTwice)
MaxRuns == 2

\* ---- bytes and files ----------------------------------------------------
NL == "\n"
\* bytes an input file is made of
Bytes == {"a", NL}
\* the byte stale output files are made of (no input file contains it)
StaleByte == "z"

\* all byte strings over S of length at most n
StringsUpTo(S, n) == UNION {[1..k -> S] : k \in 0..n}

\* states of an input path: not opened yet, not openable, or a readable file
Unseen == [kind |-> "unseen", bytes |-> <<>>]
Missing == [kind |-> "missing", bytes |-> <<>>]
Readable(c) == [kind |-> "file", bytes |-> c]

\* states of an output path
Absent == [exists |-> FALSE, bytes |-> <<>>]
Present(c) == [exists |-> TRUE, bytes |-> c]

\* ---- the program's constants ---------------------------------------------
\* the manifests: paths are numbered, min_files first, all distinct
min_files == [i \in 1..NMin |-> i]
opt_files == [i \in 1..NOpt |-> NMin + i]
Paths == 1..(NMin + NOpt)
koturno_min_file_path == "min"
koturno_all_file_path == "all"
Targets == {koturno_min_file_path, koturno_all_file_path}

\* open modes: std::ofstream::open(path) defaults to ios::out
CleanMode_app == {"out", "app"}
CleanMode == {"out"}
AppendMode_noapp == {"out"}
AppendMode == {"out", "app"}
\* an output open truncates unless it appends (or also reads)
Truncates(mode) == "out" \in mode /\ "app" \notin mode /\ "in" \notin mode

\* std::endl: a line terminator (and a flush)
endl_none == <<>>
endl == <<NL>>

VARIABLES
  files,        \* input file system: path -> Unseen, Missing or Readable(bytes)
  fs_out,       \* output file system: target -> Absent or Present(bytes)
  writable,     \* target -> whether the destination can be created/opened
  min_ofs,      \* state of the stream min_ofs: "unopened", "good" or "fail"
  all_ofs,      \* state of the stream all_ofs
  pc,           \* the line of main() to execute next, or "done" / "failed"
  itr,          \* index of the current loop's iterator (1-based)
  ifs_pos,      \* number of bytes of the current input file already consumed
  buf,          \* std::string buf
  exit_status,  \* the value main() returned, -1 while it runs
  cerr,         \* lines written to the error stream during this run
  opened,       \* history: input paths whose open was attempted, in order
  truncs,       \* history: target -> number of truncating opens this run
  wrote,        \* history: target -> whether content was appended this run
  mark,         \* history: target -> its length when the current input file was opened
  run,          \* number of the current invocation
  prev          \* history: the output file system when the previous run ended

vars == <<files, fs_out, writable, min_ofs, all_ofs, pc, itr, ifs_pos, buf,
          exit_status, cerr, opened, truncs, wrote, mark, run, prev>>

\* ---- helpers ------------------------------------------------------------
RECURSIVE SumLen(_, _)
SumLen(f, n) == IF n = 0 THEN 0 ELSE SumLen(f, n - 1) + Len(f[n].bytes)
\* bytes of input revealed so far
BytesSeen == SumLen(files, NMin + NOpt)

\* the states path p may be found in when it is opened
FileStates(p) ==
  IF files[p].kind = "unseen"
  THEN {Missing} \cup {Readable(c) : c \in StringsUpTo(Bytes, MaxInputBytes - BytesSeen)}
  ELSE {files[p]}

\* where control goes when the min_files / opt_files loop tests index i
OptLoopPc(i) == IF i <= Len(opt_files) THEN "L76" ELSE "L87"
MinLoopPc(i) == IF i <= Len(min_files) THEN "L61" ELSE OptLoopPc(1)

\* std::ofstream open of target t with the given mode: the resulting file
\* and whether the stream is open afterwards
OpenOut(t, mode) ==
  IF ~writable[t] THEN [ok |-> FALSE, file |-> fs_out[t], truncated |-> FALSE]
  ELSE IF Truncates(mode) THEN [ok |-> TRUE, file |-> Present(<<>>), truncated |-> TRUE]
  ELSE [ok |-> TRUE,
        file |-> IF fs_out[t].exists THEN fs_out[t] ELSE Present(<<>>),
        truncated |-> FALSE]

\* operator<< on an output stream in append mode: no effect on a failed stream
Write(t, stream, bytes) ==
  /\ fs_out' = IF stream = "good"
               THEN [fs_out EXCEPT ![t] = Present(@.bytes \o bytes)]
               ELSE fs_out
  /\ wrote' = IF stream = "good" THEN [wrote EXCEPT ![t] = TRUE] ELSE wrote

\* index of the first NL of c at or after k, Len(c) + 1 when there is none
RECURSIVE FindNL(_, _)
FindNL(c, k) ==
  IF k > Len(c) THEN Len(c) + 1
  ELSE IF c[k] = NL THEN k ELSE FindNL(c, k + 1)

\* a getline that loses a last line with no terminator
getline_drop(c, pos, b) ==
  LET k == FindNL(c, pos + 1) IN
  IF k > Len(c) THEN [ok |-> FALSE, line |-> <<>>, pos |-> Len(c)]
  ELSE [ok |-> TRUE, line |-> SubSeq(c, pos + 1, k - 1), pos |-> k]
\* std::getline(ifs, buf) on content c read up to pos, buf holding b
getline(c, pos, b) ==
  IF pos >= Len(c)
  THEN \* nothing to extract: failbit.  buf is erased unless eofbit was
       \* already set by the previous call (a last line with no terminator)
       [ok |-> FALSE,
        line |-> IF Len(c) > 0 /\ c[Len(c)] # NL THEN b ELSE <<>>,
        pos |-> pos]
  ELSE LET k == FindNL(c, pos + 1) IN
       [ok |-> TRUE,
        line |-> SubSeq(c, pos + 1, k - 1),
        pos |-> IF k > Len(c) THEN Len(c) ELSE k]

\* ---- initial states -----------------------------------------------------
OldFiles == {Absent} \cup {Present(c) : c \in StringsUpTo({StaleByte}, MaxOld)}

InitLocals ==
  /\ min_ofs = "unopened"
  /\ all_ofs = "unopened"
  /\ pc = "L53"
  /\ itr = 1
  /\ ifs_pos = 0
  /\ buf = <<>>
  /\ exit_status = -1
  /\ cerr = <<>>
  /\ opened = <<>>
  /\ truncs = [t \in Targets |-> 0]
  /\ wrote = [t \in Targets |-> FALSE]
  /\ mark = [t \in Targets |-> 0]
  /\ run = 1
  /\ prev = [t \in Targets |-> Absent]

\* both destinations can be created and written
Init ==
  /\ files = [p \in Paths |-> Unseen]
  /\ fs_out \in [Targets -> OldFiles]
  /\ writable = [t \in Targets |-> TRUE]
  /\ InitLocals

\* a destination may be impossible to create or open
InitOut ==
  /\ files = [p \in Paths |-> Unseen]
  /\ fs_out \in [Targets -> OldFiles]
  /\ writable \in [Targets -> BOOLEAN]
  /\ InitLocals

\* ---- the steps of main() ---------------------------------------------------
\* the effect of opening target t for output with the given mode
OpenTarget(t, mode) ==
  LET r == OpenOut(t, mode) IN
  /\ fs_out' = [fs_out EXCEPT ![t] = r.file]
  /\ truncs' = [truncs EXCEPT ![t] = IF r.truncated THEN @ + 1 ELSE @]

\* a clean_file that does nothing
clean_file_skip(path) == UNCHANGED <<fs_out, truncs>>
\* clean_file: open with the default mode and close at once
clean_file(path) == OpenTarget(path, CleanMode)

\* line 53: clean_file(koturno_min_file_path)
L53 ==
  /\ pc = "L53"
  /\ clean_file(koturno_min_file_path)
  /\ pc' = "L54"
  /\ UNCHANGED <<files, writable, min_ofs, all_ofs, itr, ifs_pos, buf,
                 exit_status, cerr, opened, wrote, mark, run, prev>>

\* line 54: clean_file(koturno_all_file_path)
L54 ==
  /\ pc = "L54"
  /\ clean_file(koturno_all_file_path)
  /\ pc' = "L56"
  /\ UNCHANGED <<files, writable, min_ofs, all_ofs, itr, ifs_pos, buf,
                 exit_status, cerr, opened, wrote, mark, run, prev>>

\* line 56: std::ofstream min_ofs(koturno_min_file_path, out | app)
L56 ==
  /\ pc = "L56"
  /\ OpenTarget(koturno_min_file_path, AppendMode)
  /\ min_ofs' = IF OpenOut(koturno_min_file_path, AppendMode).ok THEN "good" ELSE "fail"
  /\ pc' = "L57"
  /\ UNCHANGED <<files, writable, all_ofs, itr, ifs_pos, buf,
                 exit_status, cerr, opened, wrote, mark, run, prev>>

\* lines 57-60: std::ofstream all_ofs(koturno_all_file_path, out | app),
\* then the first test of the min_files loop
L57 ==
  /\ pc = "L57"
  /\ OpenTarget(koturno_all_file_path, AppendMode)
  /\ all_ofs' = IF OpenOut(koturno_all_file_path, AppendMode).ok THEN "good" ELSE "fail"
  /\ itr' = 1
  /\ pc' = MinLoopPc(1)
  /\ UNCHANGED <<files, writable, min_ofs, ifs_pos, buf,
                 exit_status, cerr, opened, wrote, mark, run, prev>>

\* a failed open that only leaves the current loop
OpenFailed_break ==
  /\ cerr' = Append(cerr, "Failed to open a file.")
  /\ exit_status' = exit_status
  /\ pc' = IF pc = "L61" THEN OptLoopPc(1) ELSE "L87"
  /\ itr' = 1
  /\ UNCHANGED ifs_pos
\* a failed open that reports the failure and goes on with the next entry
OpenFailed_continue ==
  /\ cerr' = Append(cerr, "Failed to open a file.")
  /\ exit_status' = exit_status
  /\ IF pc = "L61"
     THEN /\ pc' = MinLoopPc(itr + 1)
          /\ itr' = IF itr + 1 <= Len(min_files) THEN itr + 1 ELSE 1
     ELSE /\ pc' = OptLoopPc(itr + 1)
          /\ itr' = itr + 1
  /\ UNCHANGED ifs_pos
\* lines 63-64 and 78-79: the diagnostic, then return 1
OpenFailed ==
  /\ cerr' = Append(cerr, "Failed to open a file.")
  /\ exit_status' = 1
  /\ pc' = "failed"
  /\ UNCHANGED <<itr, ifs_pos>>

\* lines 61-62: std::ifstream ifs(*itr) in the min_files loop
L61 ==
  /\ pc = "L61"
  /\ \E f \in FileStates(min_files[itr]) :
       /\ files' = [files EXCEPT ![min_files[itr]] = f]
       /\ opened' = Append(opened, min_files[itr])
       /\ mark' = [t \in Targets |-> Len(fs_out[t].bytes)]
       /\ IF f.kind = "missing"
          THEN OpenFailed
          ELSE /\ ifs_pos' = 0
               /\ pc' = "L66"
               /\ UNCHANGED <<itr, exit_status, cerr>>
  /\ UNCHANGED <<fs_out, writable, min_ofs, all_ofs, buf, truncs, wrote, run, prev>>

\* line 66: while (getline(ifs, buf))
L66 ==
  /\ pc = "L66"
  /\ LET r == getline(files[min_files[itr]].bytes, ifs_pos, buf) IN
       /\ buf' = r.line
       /\ ifs_pos' = r.pos
       /\ pc' = IF r.ok THEN "L67" ELSE "L70"
  /\ UNCHANGED <<files, fs_out, writable, min_ofs, all_ofs, itr,
                 exit_status, cerr, opened, truncs, wrote, mark, run, prev>>

\* line 67: min_ofs << buf << std::endl
L67 ==
  /\ pc = "L67"
  /\ Write(koturno_min_file_path, min_ofs, buf \o endl)
  /\ pc' = "L68"
  /\ UNCHANGED <<files, writable, min_ofs, all_ofs, itr, ifs_pos, buf,
                 exit_status, cerr, opened, truncs, mark, run, prev>>

\* line 68: all_ofs << buf << std::endl
L68 ==
  /\ pc = "L68"
  /\ Write(koturno_all_file_path, all_ofs, buf \o endl)
  /\ pc' = "L66"
  /\ UNCHANGED <<files, writable, min_ofs, all_ofs, itr, ifs_pos, buf,
                 exit_status, cerr, opened, truncs, mark, run, prev>>

\* line 70: min_ofs << std::endl
L70 ==
  /\ pc = "L70"
  /\ Write(koturno_min_file_path, min_ofs, endl)
  /\ pc' = "L71"
  /\ UNCHANGED <<files, writable, min_ofs, all_ofs, itr, ifs_pos, buf,
                 exit_status, cerr, opened, truncs, mark, run, prev>>

\* a line 71 that never writes the separator to the all target
L71_skip ==
  /\ pc = "L71"
  /\ pc' = MinLoopPc(itr + 1)
  /\ itr' = IF itr + 1 <= Len(min_files) THEN itr + 1 ELSE 1
  /\ UNCHANGED <<files, fs_out, wrote, writable, min_ofs, all_ofs, ifs_pos, buf,
                 exit_status, cerr, opened, truncs, mark, run, prev>>
\* lines 71-73 and 60 (75 after the last entry): all_ofs << std::endl, the
\* end of the loop body, ++itr and the loop test
L71 ==
  /\ pc = "L71"
  /\ Write(koturno_all_file_path, all_ofs, endl)
  /\ pc' = MinLoopPc(itr + 1)
  /\ itr' = IF itr + 1 <= Len(min_files) THEN itr + 1 ELSE 1
  /\ UNCHANGED <<files, writable, min_ofs, all_ofs, ifs_pos, buf,
                 exit_status, cerr, opened, truncs, mark, run, prev>>

\* lines 76-77: std::ifstream ifs(*itr) in the opt_files loop
L76 ==
  /\ pc = "L76"
  /\ \E f \in FileStates(opt_files[itr]) :
       /\ files' = [files EXCEPT ![opt_files[itr]] = f]
       /\ opened' = Append(opened, opt_files[itr])
       /\ mark' = [t \in Targets |-> Len(fs_out[t].bytes)]
       /\ IF f.kind = "missing"
          THEN OpenFailed
          ELSE /\ ifs_pos' = 0
               /\ pc' = "L81"
               /\ UNCHANGED <<itr, exit_status, cerr>>
  /\ UNCHANGED <<fs_out, writable, min_ofs, all_ofs, buf, truncs, wrote, run, prev>>

\* line 81: while (getline(ifs, buf))
L81 ==
  /\ pc = "L81"
  /\ LET r == getline(files[opt_files[itr]].bytes, ifs_pos, buf) IN
       /\ buf' = r.line
       /\ ifs_pos' = r.pos
       /\ pc' = IF r.ok THEN "L82" ELSE "L84"
  /\ UNCHANGED <<files, fs_out, writable, min_ofs, all_ofs, itr,
                 exit_status, cerr, opened, truncs, wrote, mark, run, prev>>

\* a line 82 that writes the line to the min target as well
L82_both ==
  /\ pc = "L82"
  /\ fs_out' = [t \in Targets |-> Present(fs_out[t].bytes \o buf \o endl)]
  /\ wrote' = [t \in Targets |-> TRUE]
  /\ pc' = "L81"
  /\ UNCHANGED <<files, writable, min_ofs, all_ofs, itr, ifs_pos, buf,
                 exit_status, cerr, opened, truncs, mark, run, prev>>
\* line 82: all_ofs << buf << std::endl
L82 ==
  /\ pc = "L82"
  /\ Write(koturno_all_file_path, all_ofs, buf \o endl)
  /\ pc' = "L81"
  /\ UNCHANGED <<files, writable, min_ofs, all_ofs, itr, ifs_pos, buf,
                 exit_status, cerr, opened, truncs, mark, run, prev>>

\* lines 84-86 and 75: all_ofs << std::endl, ++itr and the loop test
L84 ==
  /\ pc = "L84"
  /\ Write(koturno_all_file_path, all_ofs, endl)
  /\ pc' = OptLoopPc(itr + 1)
  /\ itr' = itr + 1
  /\ UNCHANGED <<files, writable, min_ofs, all_ofs, ifs_pos, buf,
                 exit_status, cerr, opened, truncs, mark, run, prev>>

\* line 87: return 0
L87 ==
  /\ pc = "L87"
  /\ exit_status' = 0
  /\ pc' = "done"
  /\ UNCHANGED <<files, fs_out, writable, min_ofs, all_ofs, itr, ifs_pos, buf,
                 cerr, opened, truncs, wrote, mark, run, prev>>

\* the caller invokes the program again: same input files, the output files
\* as the previous run left them
Rerun ==
  /\ pc \in {"done", "failed"}
  /\ run < MaxRuns
  /\ run' = run + 1
  /\ prev' = fs_out
  /\ min_ofs' = "unopened"
  /\ all_ofs' = "unopened"
  /\ pc' = "L53"
  /\ itr' = 1
  /\ ifs_pos' = 0
  /\ buf' = <<>>
  /\ exit_status' = -1
  /\ cerr' = <<>>
  /\ opened' = <<>>
  /\ truncs' = [t \in Targets |-> 0]
  /\ wrote' = [t \in Targets |-> FALSE]
  /\ mark' = [t \in Targets |-> 0]
  /\ UNCHANGED <<files, fs_out, writable>>

\* ---- specifications -------------------------------------------------------
Next ==
  \/ L53 \/ L54 \/ L56 \/ L57
  \/ L61 \/ L66 \/ L67 \/ L68 \/ L70 \/ L71
  \/ L76 \/ L81 \/ L82 \/ L84 \/ L87

\* one run, writable destinations
Spec == Init /\ [][Next]_vars

\* one run; a sequential program always takes its next step
FairSpec == Init /\ [][Next]_vars /\ WF_vars(Next)

Next2 == Next \/ Rerun
\* successive runs over the same input files
SpecTwice == Init /\ [][Next2]_vars

\* one run, destinations that may not be writable
SpecOut == InitOut /\ [][Next]_vars

\* ---- what the claims speak of ------------------------------------------------
Terminal == pc \in {"done", "failed"}

Min(x, y) == IF x <= y THEN x ELSE y
Max(x, y) == IF x >= y THEN x ELSE y

\* the bytes of a file with its last line terminated
Normalize(c) == IF c = <<>> \/ c[Len(c)] = NL THEN c ELSE c \o <<NL>>
\* what a file contributes to a target: its lines, then one blank line
Contribution(c) == Normalize(c) \o <<NL>>

\* the contributions of the first k entries of a manifest, in list order
RECURSIVE Bundle(_, _)
Bundle(paths, k) ==
  IF k = 0 THEN <<>>
  ELSE Bundle(paths, k - 1) \o Contribution(files[paths[k]].bytes)

\* number of occurrences of NL in c
RECURSIVE CountNL(_)
CountNL(c) == IF c = <<>> THEN 0 ELSE CountNL(Tail(c)) + (IF Head(c) = NL THEN 1 ELSE 0)
\* number of lines of a file: a last line needs no terminator
NumLines(c) == CountNL(c) + (IF c # <<>> /\ c[Len(c)] # NL THEN 1 ELSE 0)

\* number of input files read to their end when the run has failed
NRead == Len(opened) - 1
\* every file of both manifests opened
AllOpened == \A p \in Paths : files[p].kind = "file"
\* some attempted open failed
SomeOpenFailed == \E i \in 1..Len(opened) : files[opened[i]].kind = "missing"

HasStale(c) == \E i \in 1..Len(c) : c[i] = StaleByte

\* ---- C1 ---------------------------------------------------------------------
\* C1: when the run succeeds, the min target holds exactly the contributions
\* of min_files in list order, and the all target holds those followed by the
\* contributions of opt_files in list order, and nothing else.
C1_SuccessContent ==
  pc = "done" =>
    /\ exit_status = 0
    /\ AllOpened
    /\ fs_out[koturno_min_file_path] = Present(Bundle(min_files, NMin))
    /\ fs_out[koturno_all_file_path] =
         Present(Bundle(min_files, NMin) \o Bundle(opt_files, NOpt))

C1_Witness ==
  /\ pc = "done"
  /\ files[min_files[1]].bytes = <<"a", NL, "a">>
  /\ files[opt_files[1]].bytes = <<"a">>

\* ---- C2 ---------------------------------------------------------------------
\* C2: opens are attempted in manifest order, min_files first; a failed open
\* is the last one attempted, the run has then ended with exit status 1, the
\* entries after it were never opened, and no step changes the output files
\* or opens a file afterwards.
C2_FailFast ==
  /\ [](/\ Len(opened) <= NMin + NOpt
        /\ \A i \in 1..Len(opened) :
             /\ opened[i] = (min_files \o opt_files)[i]
             /\ files[opened[i]].kind = "missing" =>
                  /\ i = Len(opened)
                  /\ pc = "failed"
                  /\ exit_status = 1
                  /\ cerr = <<"Failed to open a file.">>
        /\ \A p \in Paths : (\A i \in 1..Len(opened) : opened[i] # p) =>
                               files[p].kind = "unseen")
  /\ [][SomeOpenFailed => UNCHANGED <<fs_out, opened, files, pc>>]_vars

C2_Witness ==
  /\ pc = "failed"
  /\ Len(opened) = 2
  /\ files[min_files[1]].bytes = <<"a", NL>>

\* ---- C3 ---------------------------------------------------------------------
\* C3: a target is truncated at most once in a run; it has been truncated
\* (exactly once) whenever content was appended to it, an input file was
\* opened, or the run has ended; and between its truncation and its first
\* write it is empty.
C3_TruncateOnce ==
  \A t \in Targets :
    /\ truncs[t] <= 1
    /\ (wrote[t] \/ opened # <<>> \/ Terminal) => truncs[t] = 1
    /\ (truncs[t] = 1 /\ ~wrote[t]) => fs_out[t] = Present(<<>>)

C3_Witness ==
  /\ pc = "done"
  /\ \A t \in Targets : truncs[t] = 1 /\ wrote[t]

\* ---- C4 ---------------------------------------------------------------------
\* C4: when a run after the first ends, both targets hold exactly what they
\* held when the previous run ended; and a successful run's output is a
\* function of the input files alone, whatever the targets held before.
C4_Idempotent ==
  /\ (run >= 2 /\ Terminal) => fs_out = prev
  /\ pc = "done" =>
       fs_out = [t \in Targets |->
                   IF t = koturno_min_file_path
                   THEN Present(Bundle(min_files, NMin))
                   ELSE Present(Bundle(min_files, NMin) \o Bundle(opt_files, NOpt))]

C4_Witness ==
  /\ run = 2
  /\ pc = "done"
  /\ prev[koturno_min_file_path].bytes # <<>>
  /\ files[min_files[1]].bytes = <<"a">>

\* ---- C5 ---------------------------------------------------------------------
\* C5: whenever the min_files loop is between two files, or has failed to
\* open one, the two targets hold the same bytes; after a successful run the
\* all target is the min target followed by the opt_files contributions.
C5_FanOut ==
  /\ (pc = "L61" \/ (pc = "failed" /\ Len(opened) <= NMin)) =>
       fs_out[koturno_min_file_path] = fs_out[koturno_all_file_path]
  /\ pc = "done" =>
       fs_out[koturno_all_file_path].bytes =
         fs_out[koturno_min_file_path].bytes \o Bundle(opt_files, NOpt)

C5_Witness ==
  /\ pc = "L61"
  /\ itr = 2
  /\ fs_out[koturno_min_file_path].bytes = <<"a", NL, NL, NL>>

\* ---- C6 ---------------------------------------------------------------------
\* C6: a run in which an output target cannot be created or opened does not
\* end with exit status 0.
C6_OutputFailureFatal ==
  (Terminal /\ \E t \in Targets : ~writable[t]) => exit_status # 0

\* ---- C7 ---------------------------------------------------------------------
\* C7: when the run has failed, both targets exist, were truncated, hold no
\* byte of their old content, and hold exactly the complete contributions of
\* the files read before the failing one.
C7_EagerTruncation ==
  pc = "failed" =>
    /\ \A t \in Targets :
         fs_out[t].exists /\ truncs[t] = 1 /\ ~HasStale(fs_out[t].bytes)
    /\ fs_out[koturno_min_file_path].bytes = Bundle(min_files, Min(NRead, NMin))
    /\ fs_out[koturno_all_file_path].bytes =
         Bundle(min_files, Min(NRead, NMin)) \o Bundle(opt_files, Max(NRead - NMin, 0))

C7_Witness ==
  /\ pc = "failed"
  /\ Len(opened) = 1
  /\ \A t \in Targets : fs_out[t] = Present(<<>>)

\* ---- C8 ---------------------------------------------------------------------
\* the bytes appended to target t since the current input file was opened
Chunk(t) == SubSeq(fs_out[t].bytes, mark[t] + 1, Len(fs_out[t].bytes))
\* the current input file has been copied and its separator written
FileDone ==
  /\ opened # <<>>
  /\ ~SomeOpenFailed
  /\ pc \in {"L61", "L76", "L87", "done"}
\* C8: when a file has been copied, every target its manifest feeds has
\* received the file's lines and exactly one blank line more: n + 1 lines for
\* a file of n lines, one blank line for an empty file, and for a file whose
\* last line has no terminator what the terminated file would have given.
\* A target the manifest does not feed has received nothing.
C8_Separator ==
  FileDone =>
    LET p == opened[Len(opened)]
        c == files[p].bytes
        out == Chunk(koturno_all_file_path)
    IN /\ CountNL(out) = NumLines(c) + 1
       /\ c = <<>> => out = <<NL>>
       /\ (c # <<>> /\ c[Len(c)] = NL) => out = c \o <<NL>>
       /\ (c # <<>> /\ c[Len(c)] # NL) => out = (c \o <<NL>>) \o <<NL>>
       /\ Chunk(koturno_min_file_path) = IF p <= NMin THEN out ELSE <<>>

C8_Witness ==
  /\ FileDone
  /\ files[opened[Len(opened)]].bytes = <<"a">>
  /\ Chunk(koturno_all_file_path) = <<"a", NL, NL>>
  /\ \E q \in Paths : files[q].bytes = <<"a", NL>>

\* ---- C9 ---------------------------------------------------------------------
Phase ==
  CASE pc = "L53" -> "NotStarted"
    [] pc = "L54" -> "Truncating"
    [] pc = "done" -> "Completed"
    [] pc = "failed" -> "Failed"
    [] OTHER -> "Writing"
PhaseSteps ==
  {<<"NotStarted", "Truncating">>, <<"Truncating", "Writing">>,
   <<"Writing", "Writing">>, <<"Writing", "Completed">>, <<"Writing", "Failed">>}
PhaseStep == <<Phase, Phase'>> \in PhaseSteps
\* C9: a run moves NotStarted, Truncating, Writing and then ends Completed
\* or Failed, and it does end; it ends Completed, with exit status 0, exactly
\* when every file of both manifests opened, and Failed with exit status 1
\* otherwise; once an open has failed the run is Failed and stays so.
C9_StateMachine ==
  /\ [][PhaseStep]_vars
  /\ [](Terminal => /\ (pc = "done" <=> AllOpened)
                    /\ (pc = "done" => exit_status = 0)
                    /\ (pc = "failed" => exit_status = 1 /\ SomeOpenFailed))
  /\ [](SomeOpenFailed => Phase = "Failed")
  /\ [][Phase = "Failed" => Phase' = "Failed"]_vars
  /\ <>Terminal

C9_Witness ==
  /\ pc = "failed"
  /\ Len(opened) = NMin + NOpt

\* ---- C10 --------------------------------------------------------------------
\* C10: from the end of the min_files loop on, the min target holds exactly
\* the contributions of min_files, also when the run fails on an opt_files
\* entry; the run then has exit status 1 and the all target holds the
\* min_files contributions and those of the opt_files entries read before.
C10_MinFinishedFirst ==
  /\ (pc \in {"L76", "L81", "L82", "L84", "L87", "done"}
        \/ (pc = "failed" /\ Len(opened) > NMin)) =>
       fs_out[koturno_min_file_path] = Present(Bundle(min_files, NMin))
  /\ (pc = "failed" /\ Len(opened) > NMin) =>
       /\ exit_status = 1
       /\ fs_out[koturno_all_file_path] =
            Present(Bundle(min_files, NMin) \o Bundle(opt_files, NRead - NMin))

C10_Witness ==
  /\ pc = "failed"
  /\ Len(opened) = NMin + 2
  /\ files[opt_files[1]].bytes = <<"a", NL>>

====
